---------------------------- MODULE Spec2Model ----------------------------
(***************************************************************************)
(* Model of path_generators.py: directory_file_generator,                  *)
(* target_generator and multi_target_generator.                            *)
(*                                                                         *)
(* The three generators are lazy and mutually recursive.  The chain of     *)
(* suspended generator frames is the variable `stack`; one action is one   *)
(* resumption of the innermost frame, up to its next yield, return or      *)
(* raise.  The consumer of the top-level sequence is modelled by pc.       *)
(***************************************************************************)
EXTENDS Integers, Sequences, FiniteSets, TLC

\* ------------------------------------------------------------------ bounds
MaxTargets == 2     \* length of the top-level target list
MaxDepth == 3       \* nesting of open manifests at which the interpreter
                    \* raises RecursionError (sys.getrecursionlimit, scaled)

\* ------------------------------------------------------------- path values
\* A basename is the pair os.path.splitext gives: (file_name, file_extension).
Name(stem, ext) == [stem |-> stem, ext |-> ext]

\* A path string: absolute or relative, and its components.
Abs(parts) == [abs |-> TRUE, parts |-> parts]
Rel(parts) == [abs |-> FALSE, parts |-> parts]

\* '' and None: the two falsy values of base_path and of a manifest line.
EmptyPath == Rel(<<>>)

dN == Name("d", "")
subN == Name("sub", "")
aList == Name("a", ".list")
bList == Name("b", ".list")
mList == Name("m", ".list")
noteTxt == Name("note", ".txt")
eTxt == Name("e", ".txt")
upTXT == Name("UP", ".TXT")
binDat == Name("bin", ".dat")
noSuch == Name("nosuch", ".txt")

\* str.lower on the extensions that occur.
Lower(ext) ==
    CASE ext = ".TXT" -> ".txt"
      [] ext = ".LIST" -> ".list"
      [] ext = ".DAT" -> ".dat"
      [] OTHER -> ext

\* ---------------------------------------------------------- the filesystem
\* The process's working directory.
Cwd == <<dN>>

\* Directories, by absolute components.
DirNodes == {<<>>, <<dN>>, <<dN, subN>>}

\* Regular files in os.walk order (top-down, each directory's files first).
FileOrder ==
    << <<dN, aList>>, <<dN, bList>>, <<dN, noteTxt>>, <<dN, upTXT>>,
       <<dN, binDat>>, <<dN, subN, eTxt>>, <<dN, subN, mList>> >>

FileNodes == {FileOrder[i] : i \in 1..Len(FileOrder)}

\* File contents: text (a sequence of lines) or bytes that do not decode.
Text(lines) == [text |-> TRUE, lines |-> lines]
Binary == [text |-> FALSE, lines |-> <<>>]

ContentsA ==
    { <<Rel(<<noteTxt>>)>>,
      <<Rel(<<noteTxt>>), EmptyPath, Rel(<<noteTxt>>)>>,
      <<Rel(<<bList>>)>>,
      <<Rel(<<aList>>)>> }

ContentsB ==
    { <<Rel(<<noteTxt>>)>>,
      <<Rel(<<noteTxt>>), Rel(<<noSuch>>)>>,
      <<Rel(<<aList>>)>> }

FileSystem(linesA, linesB) ==
    [f \in FileNodes |->
        CASE f = <<dN, aList>> -> Text(linesA)
          [] f = <<dN, bList>> -> Text(linesB)
          [] f = <<dN, subN, mList>> -> Text(<<Rel(<<eTxt>>)>>)
          [] f = <<dN, binDat>> -> Binary
          [] OTHER -> Text(<<>>)]

\* ------------------------------------------------------------------ inputs
TargetSet ==
    { Rel(<<aList>>), Rel(<<bList>>), Rel(<<noteTxt>>), Rel(<<subN>>),
      Abs(<<dN>>), Rel(<<subN, mList>>), Rel(<<binDat>>), Abs(<<noSuch>>) }

ExtensionSets == { {}, {".txt"}, {".TXT"} }

BasePaths == { EmptyPath, Abs(<<dN>>), Rel(<<subN>>) }

RECURSIVE SeqsUpTo(_, _)
SeqsUpTo(S, n) ==
    IF n = 0 THEN {<<>>}
    ELSE LET shorter == SeqsUpTo(S, n - 1)
         IN shorter \cup {Append(s, x) : s \in shorter, x \in S}

TargetLists == SeqsUpTo(TargetSet, MaxTargets) \ {<<>>}

\* ------------------------------------------------------------------- state
VARIABLES
    fs,             \* the filesystem's file contents
    targets0,       \* target_iterable of the top-level call
    exts,           \* yield_extensions
    base0,          \* base_path of the top-level call
    skip_handler,   \* TRUE iff a skip_handler was supplied
    stack,          \* suspended generator frames, outermost first
    out,            \* paths the consumer has received
    skips,          \* calls made to skip_handler
    pc,             \* "suspended", "running", "done", "error",
                    \* "abandoned", "closed"
    err,            \* the exception that reached the consumer
    produced        \* paths yielded by innermost target_generator leaves

vars == <<fs, targets0, exts, base0, skip_handler, stack, out, skips, pc,
          err, produced>>

inputs == <<fs, targets0, exts, base0, skip_handler>>

\* ------------------------------------------------------------ os.path, os
Truthy(p) == p # EmptyPath

isabs(p) == p.abs

Resolve(p) == IF p.abs THEN p.parts ELSE Cwd \o p.parts

isfile(p) == p # EmptyPath /\ Resolve(p) \in FileNodes

isdir(p) == p # EmptyPath /\ Resolve(p) \in DirNodes

exists(p) == isfile(p) \/ isdir(p)

\* target_path.lstrip(os.path.sep)
lstrip(p) == Rel(p.parts)

\* os.path.join(a, b) for a relative b
join(a, b) == [abs |-> a.abs, parts |-> a.parts \o b.parts]

\* os.path.split(path)[0]
dirname(p) == [abs |-> p.abs, parts |-> SubSeq(p.parts, 1, Len(p.parts) - 1)]

\* os.path.split(path)[1]
basename(p) == p.parts[Len(p.parts)]

\* os.path.splitext(name)[1]
splitext(name) == name.ext

IsPrefix(s, t) == Len(s) <= Len(t) /\ SubSeq(t, 1, Len(s)) = s

\* os.walk(directory): every (root, file) below directory, as
\* os.path.join(root, file).  The listing order of a real filesystem is
\* arbitrary; the model fixes FileOrder.
walk(directory) ==
    LET top == Resolve(directory)
        below == SelectSeq(FileOrder, LAMBDA f : IsPrefix(top, f))
    IN [i \in 1..Len(below) |->
            join(directory, Rel(SubSeq(below[i], Len(top) + 1, Len(below[i]))))]

\* ------------------------------------------------- directory_file_generator
directory_file_generator(directory, yield_extensions) ==
    IF yield_extensions # {}
    THEN SelectSeq(walk(directory),
                   LAMBDA f : splitext(basename(f)) \in yield_extensions)
    ELSE walk(directory)

\* ------------------------------------------------------- exceptions, events
NoError == [type |-> "none", msg |-> <<>>]

Line(label, value) == [label |-> label, value |-> value]

\* ValueError('The base path "{0}" is ...'.format(base_path))
BasePathError(base_path) ==
    [type |-> "ConfigError",
     msg |-> << Line(IF ~isabs(base_path) THEN "The base path is not absolute."
                     ELSE IF ~exists(base_path)
                          THEN "The base path does not exist."
                          ELSE "The base path is not a directory.",
                     base_path) >>]

BadBasePath(base_path) ==
    Truthy(base_path)
    /\ (~isabs(base_path) \/ ~exists(base_path) \/ ~isdir(base_path))

\* ValueError('The path could not be found.\n  The path: "{0}"\n{1}'), where
\* {1} is one "sub target of" line per entry of source_targets.
NotFoundError(target_path, source_targets) ==
    [type |-> "NotFound",
     msg |-> << Line("The path", target_path) >> \o
             [i \in 1..Len(source_targets) |->
                Line(IF i = 1 THEN "is a sub target of"
                     ELSE "which is a sub target of",
                     source_targets[i])]]

\* skip_handler is None and is called.
NoneTypeError == [type |-> "TypeError", msg |-> <<>>]

\* The interpreter's recursion limit is hit while a generator is resumed.
RecursionError == [type |-> "RecursionError", msg |-> <<>>]

SkipEvent(path, reason) == [path |-> path, reason |-> reason]

\* ------------------------------------------------------- target_generator
\* {ext.lower() for ext in yield_extensions}
Lowered(yield_extensions) == {Lower(e) : e \in yield_extensions}

joined_path(target_path, base_path) ==
    IF Truthy(base_path) THEN join(base_path, lstrip(target_path))
    ELSE EmptyPath

\* "Determine correct path and type": first match wins.
Classify(target_path, base_path) ==
    LET joined == joined_path(target_path, base_path)
    IN IF isfile(joined) THEN [kind |-> "file", path |-> joined]
       ELSE IF isdir(joined) THEN [kind |-> "dir", path |-> joined]
       ELSE IF isfile(target_path) THEN [kind |-> "file", path |-> target_path]
       ELSE IF isdir(target_path) THEN [kind |-> "dir", path |-> target_path]
       ELSE [kind |-> "none", path |-> target_path]

\* file_extension.lower() in yield_extensions_lowered
IsYieldFile(path, yield_extensions) ==
    Lower(splitext(basename(path))) \in Lowered(yield_extensions)

\* target_list_file.read().splitlines() without its empty lines
NonEmptyLines(path) ==
    SelectSeq(fs[Resolve(path)].lines, LAMBDA item : item # EmptyPath)

Readable(path) == fs[Resolve(path)].text

\* The manifest's path put after its ancestors instead of before them.
SubSourcesAppended(path, source_targets) == source_targets \o <<path>>

\* source_targets handed to the nested multi_target_generator
SubSources(path, source_targets) == <<path>> \o source_targets

\* --------------------------------------------------------- generator frames
MultiFrame(target_iterable, base_path, source_targets) ==
    [kind |-> "multi", targets |-> target_iterable, base |-> base_path,
     src |-> source_targets, seen |-> {}, path |-> EmptyPath, pending |-> <<>>]

\* target_generator suspended inside "with open(path)": the handle is open.
ManifestFrame(path) ==
    [kind |-> "manifest", targets |-> <<>>, base |-> EmptyPath, src |-> <<>>,
     seen |-> {}, path |-> path, pending |-> <<>>]

\* target_generator about to yield a file, or the rest of a directory walk.
LeafFrame(path, pending) ==
    [kind |-> "leaf", targets |-> <<>>, base |-> EmptyPath, src |-> <<>>,
     seen |-> {}, path |-> path, pending |-> pending]

Depth(stk) == Cardinality({i \in 1..Len(stk) : stk[i].kind = "manifest"})

OpenHandles(stk) == {i \in 1..Len(stk) : stk[i].kind = "manifest"}

\* ------------------------------------------------- multi_target_generator
\* A path yielded by the innermost target_generator passes the for-loop of
\* every enclosing multi_target_generator, innermost first.  Each adds it to
\* its processed_items and yields it on, or finds it there, reports it to
\* skip_handler if there is one, and goes on with its own loop.
RECURSIVE GateFrom(_, _, _)
GateFrom(stk, i, file_path) ==
    IF i = 0 THEN [stack |-> stk, yielded |-> TRUE, reports |-> <<>>]
    ELSE IF stk[i].kind # "multi" THEN GateFrom(stk, i - 1, file_path)
    ELSE IF file_path \in stk[i].seen
         THEN [stack |-> stk, yielded |-> FALSE,
               reports |-> IF skip_handler
                           THEN <<SkipEvent(file_path, "Already processed")>>
                           ELSE <<>>]
    ELSE GateFrom([stk EXCEPT ![i].seen = @ \cup {file_path}], i - 1, file_path)

\* Only the innermost multi_target_generator filters; its callers yield on
\* whatever they are given.
GateInnermostOnly(stk, file_path) ==
    LET i == CHOOSE k \in 1..Len(stk) :
                 /\ stk[k].kind = "multi"
                 /\ \A j \in (k + 1)..Len(stk) : stk[j].kind # "multi"
    IN IF file_path \in stk[i].seen
       THEN [stack |-> stk, yielded |-> FALSE,
             reports |-> IF skip_handler
                         THEN <<SkipEvent(file_path, "Already processed")>>
                         ELSE <<>>]
       ELSE [stack |-> [stk EXCEPT ![i].seen = @ \cup {file_path}],
             yielded |-> TRUE, reports |-> <<>>]

\* A suppressed path is still handed outwards, so every enclosing
\* multi_target_generator that knows it reports it again.
RECURSIVE GateReportingFrom(_, _, _, _)
GateReportingFrom(stk, i, file_path, reports) ==
    IF i = 0 THEN [stack |-> stk, yielded |-> reports = <<>>,
                   reports |-> IF skip_handler THEN reports ELSE <<>>]
    ELSE IF stk[i].kind # "multi"
         THEN GateReportingFrom(stk, i - 1, file_path, reports)
    ELSE IF file_path \in stk[i].seen
         THEN GateReportingFrom(stk, i - 1, file_path,
                  Append(reports, SkipEvent(file_path, "Already processed")))
    ELSE GateReportingFrom([stk EXCEPT ![i].seen = @ \cup {file_path}],
                           i - 1, file_path, reports)

GateReportingEveryLevel(stk, file_path) ==
    GateReportingFrom(stk, Len(stk), file_path, <<>>)

Gate(stk, file_path) == GateFrom(stk, Len(stk), file_path)

\* ------------------------------------------------------------------ actions
Top == stack[Len(stack)]

\* multi_target_generator's for-loop takes its next target_path and resumes
\* a new target_generator for it.
Resolving ==
    /\ pc = "running"
    /\ stack # <<>>
    /\ Top.kind = "multi"
    /\ Top.targets # <<>>

Advanced == [stack EXCEPT ![Len(stack)].targets = Tail(@)]

\* The for-loop catches the exception and goes on with the next target.
RaiseSwallowed(e) ==
    /\ stack' = Advanced
    /\ UNCHANGED <<pc, err, out, skips, produced, inputs>>

\* An exception leaves every generator of the chain; each "with" block on
\* the way closes its file.
Raise(e) ==
    /\ pc' = "error"
    /\ err' = e
    /\ stack' = <<>>
    /\ UNCHANGED <<out, skips, produced, inputs>>

Init ==
    /\ \E linesA \in ContentsA, linesB \in ContentsB :
            fs = FileSystem(linesA, linesB)
    /\ targets0 \in TargetLists
    /\ exts \in ExtensionSets
    /\ base0 \in BasePaths
    /\ skip_handler \in BOOLEAN
    /\ stack = <<MultiFrame(targets0, base0, <<>>)>>
    /\ out = <<>>
    /\ skips = <<>>
    /\ pc = "suspended"
    /\ err = NoError
    /\ produced = 0

\* The consumer asks for the next path.
Request ==
    /\ pc = "suspended"
    /\ pc' = "running"
    /\ UNCHANGED <<stack, out, skips, err, produced, inputs>>

\* The consumer stops iterating and keeps the generator object.
Abandon ==
    /\ pc = "suspended"
    /\ pc' = "abandoned"
    /\ UNCHANGED <<stack, out, skips, err, produced, inputs>>

\* The abandoned generator is closed or collected: GeneratorExit unwinds it.
Collect ==
    /\ pc = "abandoned"
    /\ pc' = "closed"
    /\ stack' = <<>>
    /\ UNCHANGED <<out, skips, err, produced, inputs>>

RaiseBasePath ==
    /\ Resolving
    /\ BadBasePath(Top.base)
    /\ Raise(BasePathError(Top.base))

RaiseNotFound ==
    /\ Resolving
    /\ ~BadBasePath(Top.base)
    /\ Classify(Head(Top.targets), Top.base).kind = "none"
    /\ Raise(NotFoundError(Head(Top.targets), Top.src))

YieldFile ==
    /\ Resolving
    /\ ~BadBasePath(Top.base)
    /\ LET c == Classify(Head(Top.targets), Top.base)
       IN /\ c.kind = "file"
          /\ IsYieldFile(c.path, exts)
          /\ stack' = Append(Advanced, LeafFrame(c.path, <<c.path>>))
    /\ UNCHANGED <<out, skips, pc, err, produced, inputs>>

WalkDirectory ==
    /\ Resolving
    /\ ~BadBasePath(Top.base)
    /\ LET c == Classify(Head(Top.targets), Top.base)
       IN /\ c.kind = "dir"
          /\ stack' = Append(Advanced,
                 LeafFrame(c.path, directory_file_generator(c.path, exts)))
    /\ UNCHANGED <<out, skips, pc, err, produced, inputs>>

IsManifest(c) == c.kind = "file" /\ ~IsYieldFile(c.path, exts)

OpenManifest ==
    /\ Resolving
    /\ ~BadBasePath(Top.base)
    /\ LET c == Classify(Head(Top.targets), Top.base)
       IN /\ IsManifest(c)
          /\ Readable(c.path)
          /\ NonEmptyLines(c.path) # <<>>
          /\ Depth(stack) < MaxDepth
          /\ stack' = Advanced \o
                << ManifestFrame(c.path),
                   MultiFrame(NonEmptyLines(c.path), dirname(c.path),
                              SubSources(c.path, Top.src)) >>
    /\ UNCHANGED <<out, skips, pc, err, produced, inputs>>

RecursionLimit ==
    /\ Resolving
    /\ ~BadBasePath(Top.base)
    /\ LET c == Classify(Head(Top.targets), Top.base)
       IN /\ IsManifest(c)
          /\ Readable(c.path)
          /\ NonEmptyLines(c.path) # <<>>
          /\ Depth(stack) >= MaxDepth
    /\ Raise(RecursionError)

\* "if target_list:" is false: the file is closed and nothing is generated.
EmptyManifest ==
    /\ Resolving
    /\ ~BadBasePath(Top.base)
    /\ LET c == Classify(Head(Top.targets), Top.base)
       IN /\ IsManifest(c)
          /\ Readable(c.path)
          /\ NonEmptyLines(c.path) = <<>>
    /\ stack' = Advanced
    /\ UNCHANGED <<out, skips, pc, err, produced, inputs>>

\* read() raises UnicodeDecodeError: skip_handler is called, None or not.
UnreadableManifest ==
    /\ Resolving
    /\ ~BadBasePath(Top.base)
    /\ LET c == Classify(Head(Top.targets), Top.base)
       IN /\ IsManifest(c)
          /\ ~Readable(c.path)
          /\ IF skip_handler
             THEN /\ skips' = Append(skips,
                                     SkipEvent(c.path, "Unable to read file."))
                  /\ stack' = Advanced
                  /\ UNCHANGED <<out, pc, err, produced, inputs>>
             ELSE Raise(NoneTypeError)

\* The innermost target_generator yields its next path.
Produce ==
    /\ pc = "running"
    /\ stack # <<>>
    /\ Top.kind = "leaf"
    /\ Top.pending # <<>>
    /\ LET g == Gate([stack EXCEPT ![Len(stack)].pending = Tail(@)],
                     Head(Top.pending))
       IN /\ stack' = g.stack
          /\ produced' = produced + 1
          /\ IF g.yielded
             THEN /\ out' = Append(out, Head(Top.pending))
                  /\ pc' = "suspended"
                  /\ skips' = skips
             ELSE /\ skips' = skips \o g.reports
                  /\ UNCHANGED <<out, pc>>
    /\ UNCHANGED <<err, inputs>>

\* The innermost target_generator has nothing left and returns.
ReturnLeaf ==
    /\ pc = "running"
    /\ stack # <<>>
    /\ Top.kind = "leaf"
    /\ Top.pending = <<>>
    /\ stack' = SubSeq(stack, 1, Len(stack) - 1)
    /\ UNCHANGED <<out, skips, pc, err, produced, inputs>>

\* A multi_target_generator has no target left and returns; the manifest's
\* target_generator that ran it leaves its "with" block and returns too.
ReturnMulti ==
    /\ pc = "running"
    /\ stack # <<>>
    /\ Top.kind = "multi"
    /\ Top.targets = <<>>
    /\ IF Len(stack) = 1
       THEN stack' = <<>> /\ pc' = "done"
       ELSE stack' = SubSeq(stack, 1, Len(stack) - 2) /\ pc' = pc
    /\ UNCHANGED <<out, skips, err, produced, inputs>>

Next ==
    \/ Request
    \/ Abandon
    \/ Collect
    \/ RaiseBasePath
    \/ RaiseNotFound
    \/ YieldFile
    \/ WalkDirectory
    \/ OpenManifest
    \/ RecursionLimit
    \/ EmptyManifest
    \/ UnreadableManifest
    \/ Produce
    \/ ReturnLeaf
    \/ ReturnMulti

Spec == Init /\ [][Next]_vars

\* ------------------------------------------ the generators, run to the end
\* What the three generators produce when the consumer iterates to the end:
\* the yields and skip_handler calls in order, and the exception if one ends
\* the iteration.
YieldEvent(path) == [kind |-> "yield", path |-> path, reason |-> ""]

ReportEvent(path, reason) == [kind |-> "skip", path |-> path, reason |-> reason]

Result(events, e) == [events |-> events, err |-> e]

\* The for-loop body of multi_target_generator over what one target yields.
RECURSIVE processed(_, _)
processed(events, processed_items) ==
    IF events = <<>> THEN [events |-> <<>>, seen |-> processed_items]
    ELSE LET ev == Head(events)
             dup == ev.kind = "yield" /\ ev.path \in processed_items
             now == IF ev.kind = "yield" THEN processed_items \cup {ev.path}
                    ELSE processed_items
             rest == processed(Tail(events), now)
             here == IF ~dup THEN <<ev>>
                     ELSE IF skip_handler
                          THEN <<ReportEvent(ev.path, "Already processed")>>
                          ELSE <<>>
         IN [events |-> here \o rest.events, seen |-> rest.seen]

RECURSIVE multi_target_generator(_, _, _, _, _)
RECURSIVE target_generator(_, _, _, _)

target_generator(target_path, base_path, source_targets, depth) ==
    IF BadBasePath(base_path) THEN Result(<<>>, BasePathError(base_path))
    ELSE LET c == Classify(target_path, base_path)
         IN CASE c.kind = "none" ->
                    Result(<<>>, NotFoundError(target_path, source_targets))
              [] c.kind = "dir" ->
                    LET files == directory_file_generator(c.path, exts)
                    IN Result([i \in 1..Len(files) |-> YieldEvent(files[i])],
                              NoError)
              [] c.kind = "file" /\ IsYieldFile(c.path, exts) ->
                    Result(<<YieldEvent(c.path)>>, NoError)
              [] OTHER ->
                    IF ~Readable(c.path)
                    THEN IF skip_handler
                         THEN Result(<<ReportEvent(c.path,
                                        "Unable to read file.")>>, NoError)
                         ELSE Result(<<>>, NoneTypeError)
                    ELSE IF NonEmptyLines(c.path) = <<>>
                         THEN Result(<<>>, NoError)
                    ELSE IF depth >= MaxDepth
                         THEN Result(<<>>, RecursionError)
                    ELSE multi_target_generator(
                             NonEmptyLines(c.path), dirname(c.path),
                             SubSources(c.path, source_targets), depth + 1, {})

multi_target_generator(target_iterable, base_path, source_targets, depth, seen) ==
    IF target_iterable = <<>> THEN Result(<<>>, NoError)
    ELSE LET r == target_generator(Head(target_iterable), base_path,
                                   source_targets, depth)
             g == processed(r.events, seen)
         IN IF r.err # NoError THEN Result(g.events, r.err)
            ELSE LET rest == multi_target_generator(
                                 Tail(target_iterable), base_path,
                                 source_targets, depth, g.seen)
                 IN Result(g.events \o rest.events, rest.err)

TopLevel == multi_target_generator(targets0, base0, <<>>, 0, {})

Yields(events) ==
    LET ys == SelectSeq(events, LAMBDA ev : ev.kind = "yield")
    IN [i \in 1..Len(ys) |-> ys[i].path]

Reports(events) ==
    LET rs == SelectSeq(events, LAMBDA ev : ev.kind = "skip")
    IN [i \in 1..Len(rs) |-> SkipEvent(rs[i].path, rs[i].reason)]

Range(s) == {s[i] : i \in 1..Len(s)}

Terminated == pc \in {"done", "error"}

\* --------------------------------------------------------------- properties
\* The small-step model and the generators run to the end agree.
ModelAgrees ==
    Terminated =>
        /\ err = TopLevel.err
        /\ out = Yields(TopLevel.events)
        /\ skips = Reports(TopLevel.events)

IsSeqPrefix(s, t) == Len(s) <= Len(t) /\ SubSeq(t, 1, Len(s)) = s

DuplicateReports ==
    Cardinality({k \in 1..Len(skips) : skips[k].reason = "Already processed"})

Lines(name) == fs[<<dN, name>>].lines

\* Paths of the manifests whose expansion is in progress, outermost first.
OpenManifests(stk) ==
    LET ms == SelectSeq(stk, LAMBDA f : f.kind = "manifest")
    IN [i \in 1..Len(ms) |-> ms[i].path]

\* C1: in one top-level call no path string is handed to the consumer twice,
\* however many manifests, nested manifests or directories lead to it.
NoDuplicateOutput ==
    \A i, j \in 1..Len(out) : i # j => out[i] # out[j]

\* C1 witness: a.list lists b.list, b.list lists note.txt, and the targets are
\* a.list then b.list: note.txt came through a nested manifest first and
\* through b.list again, and was handed over once.
NestedOverlapResolved ==
    /\ pc = "done"
    /\ targets0 = <<Rel(<<aList>>), Rel(<<bList>>)>>
    /\ Lines(aList) = <<Rel(<<bList>>)>>
    /\ Lines(bList) = <<Rel(<<noteTxt>>)>>
    /\ produced = 2
    /\ Len(out) = 1

\* C2: extension matching ignores letter case for a directory target: the
\* files yielded are those below it whose lower-cased extension is in the
\* lower-cased extension set.
DirectoryMatchIgnoresCase ==
    LET c == Classify(targets0[1], base0)
    IN (/\ pc = "done"
        /\ Len(targets0) = 1
        /\ ~BadBasePath(base0)
        /\ c.kind = "dir"
        /\ exts # {})
       => Range(out) =
            {f \in Range(walk(c.path)) :
                Lower(splitext(basename(f))) \in Lowered(exts)}

\* C3: with lower-case extensions everywhere, a directory target yields
\* exactly the files below it whose extension is in the extension set, each
\* once; the empty set yields none.
DirectoryYieldsOnlyMembers ==
    LET c == Classify(targets0[1], base0)
    IN (/\ pc = "done"
        /\ Len(targets0) = 1
        /\ ~BadBasePath(base0)
        /\ c.kind = "dir"
        /\ \A e \in exts : Lower(e) = e
        /\ \A f \in Range(walk(c.path)) :
              Lower(splitext(basename(f))) = splitext(basename(f)))
       => /\ Range(out) = {f \in Range(walk(c.path)) :
                              splitext(basename(f)) \in exts}
          /\ Len(out) = Cardinality(Range(out))

\* C4: a readable manifest reached at path P, absolute or relative, whose
\* lines name files of its own directory is resolved without error and
\* yields those files from the directory of P.
ManifestResolvesFromOwnDirectory ==
    LET c == Classify(targets0[1], base0)
        here(line) == join(dirname(c.path), line)
    IN (/\ Terminated
        /\ Len(targets0) = 1
        /\ ~BadBasePath(base0)
        /\ c.kind = "file"
        /\ IsManifest(c)
        /\ Readable(c.path)
        /\ \A line \in Range(NonEmptyLines(c.path)) :
              /\ Len(line.parts) = 1
              /\ isfile(here(line))
              /\ IsYieldFile(here(line), exts))
       => /\ pc = "done"
          /\ Range(out) = {here(line) : line \in Range(NonEmptyLines(c.path))}

\* C5: the not-found error names the target that was not found and then
\* every manifest being expanded, from the most recent to the first; with
\* no manifest being expanded it names the target alone.
NotFoundMessageChain ==
    [][(pc' = "error" /\ err'.type = "NotFound") =>
          LET anc == OpenManifests(stack)
              n == Len(anc)
          IN /\ err'.msg[1] = Line("The path", Head(Top.targets))
             /\ Len(err'.msg) = 1 + n
             /\ \A i \in 1..n :
                   /\ err'.msg[i + 1].value = anc[n + 1 - i]
                   /\ err'.msg[i + 1].label =
                        IF i = 1 THEN "is a sub target of"
                        ELSE "which is a sub target of"]_vars

\* C5 witness: a.list lists b.list and b.list lists a missing file: the error
\* names the file, b.list and a.list.
NotFoundBelowTwoManifests ==
    /\ pc = "error"
    /\ err.type = "NotFound"
    /\ Len(err.msg) = 3
    /\ err.msg[1].value = Rel(<<noSuch>>)
    /\ basename(err.msg[2].value) = bList
    /\ basename(err.msg[3].value) = aList

\* C6: when a target raises a not-found or base-path error at any depth, the
\* run never completes normally, the consumer gets that error, and all that
\* was yielded or reported is what the targets before the failing one give,
\* in order: nothing after it is resolved.
FailFastPropagation ==
    LET r == TopLevel
    IN r.err.type \in {"NotFound", "ConfigError"} =>
          /\ pc # "done"
          /\ IsSeqPrefix(out, Yields(r.events))
          /\ IsSeqPrefix(skips, Reports(r.events))
          /\ pc = "error" =>
                /\ err = r.err
                /\ out = Yields(r.events)
                /\ skips = Reports(r.events)

\* C6 witness: the first of two targets is a manifest that yields a path and
\* then fails inside a nested manifest; the second target is never resolved.
FailedBeforeSibling ==
    /\ pc = "error"
    /\ err.type = "NotFound"
    /\ Len(err.msg) >= 2
    /\ out # <<>>
    /\ Len(targets0) = 2
    /\ target_generator(targets0[1], base0, <<>>, 0).err.type = "NotFound"

\* C7: a manifest that does not decode never makes the resolution raise,
\* with or without a skip handler.
UndecodableNeverRaises ==
    pc = "error" => err.type # "TypeError"

\* C8: with a skip handler, every path a target expansion produces is either
\* handed to the consumer or reported once as "Already processed", and a
\* reported path is one the consumer has; two manifests listing the same
\* file yield it once and report it once.
EachDuplicateReportedOnce ==
    skip_handler =>
        /\ produced = Len(out) + DuplicateReports
        /\ \A k \in 1..Len(skips) :
              skips[k].reason = "Already processed" =>
                  skips[k].path \in Range(out)
        /\ (/\ pc = "done"
            /\ targets0 = <<Rel(<<aList>>), Rel(<<bList>>)>>
            /\ Lines(aList) = <<Rel(<<noteTxt>>)>>
            /\ Lines(bList) = <<Rel(<<noteTxt>>)>>
            /\ exts # {}
            /\ ~BadBasePath(base0))
           => /\ Len(out) = 1
              /\ basename(out[1]) = noteTxt
              /\ skips = <<SkipEvent(out[1], "Already processed")>>

\* C8 witness: a.list and b.list both list note.txt; it was yielded once and
\* the handler was called once.
SharedFileReportedOnce ==
    /\ pc = "done"
    /\ skip_handler
    /\ targets0 = <<Rel(<<aList>>), Rel(<<bList>>)>>
    /\ Lines(aList) = <<Rel(<<noteTxt>>)>>
    /\ Lines(bList) = <<Rel(<<noteTxt>>)>>
    /\ Len(out) = 1
    /\ Len(skips) = 1

\* C9: a manifest that lists itself, directly or through other manifests, is
\* detected: no manifest is opened again while its own expansion is in
\* progress, and no resolution is ended by the interpreter's recursion limit.
NoManifestReentered ==
    /\ \A i, j \in OpenHandles(stack) :
          i # j => Resolve(stack[i].path) # Resolve(stack[j].path)
    /\ pc = "error" => err.type # "RecursionError"

\* C10: while control is with the consumer, between two requests or after it
\* stopped iterating, no manifest file is open.
NoHandleOpenAtConsumer ==
    pc \in {"suspended", "abandoned"} => OpenHandles(stack) = {}

=============================================================================
